---- MODULE Spec2Model ----
(***************************************************************************)
(* Model of mshadow/tensor.h: Shape<dimension>, the shape builders          *)
(* Shape1..Shape4, Tensor<Device,dimension> views (FlatTo2D, operator[],    *)
(* Slice) and the expression assignment dst = A + B.                        *)
(*                                                                         *)
(* A Shape<D> is a record [dim, shape_, stride_]; the code's shape_[i] is   *)
(* shape_[i+1] here (TLA+ sequences start at 1).  A Tensor is a record      *)
(* [dptr, shape]; dptr is an address counted in real_t elements.            *)
(* Arithmetic is over the naturals: the extents of the model stay far       *)
(* below the width of index_t and size_t (tensor_base.h).                   *)
(***************************************************************************)
EXTENDS Integers, Sequences, FiniteSets, TLC

VARIABLES
    cur,      \* the tensor handle the caller holds
    prev,     \* the handle the last operation was applied to
    last,     \* the last operation and its arguments / scalar reference
    allocd,   \* TRUE when AllocSpace has set the stride_ of cur's buffer
    sh0,      \* a shape as built by Shape1..Shape4
    sh,       \* the shape obtained from sh0 by repeated SubShape
    nsub,     \* number of SubShape applications from sh0 to sh
    other,    \* right operand of the last Shape::operator==
    q,        \* result of the last shape query
    ta, tb, td,  \* operands A, B and destination of dst = A + B
    mem,      \* device memory, address -> real_t
    runs,     \* number of times the assignment has run
    out1      \* memory right after the first run

vars == <<cur, prev, last, allocd, sh0, sh, nsub, other, q,
          ta, tb, td, mem, runs, out1>>

tensorVars == <<cur, prev, last, allocd>>
shapeVars  == <<sh0, sh, nsub, other, q>>
mapVars    == <<ta, tb, td, mem, runs, out1>>

----------------------------------------------------------------------------
(* Bounds *)

MaxExt  == 2      \* extents range over 0..MaxExt
MaxPad  == 1      \* AllocSpace pads dimension 0 by 0..MaxPad elements
MaxBase == 1      \* pointers handed out start at 0..MaxBase
MaxRuns == 2      \* the assignment is run at most MaxRuns times
MaxSeed == 1      \* fill patterns of the operands
MaxArg  == 3      \* index and slice arguments range over 0..MaxArg

Exts   == 0..MaxExt
Indet  == 0..(MaxExt + MaxPad)   \* values an uninitialised index_t may hold
Bases  == 0..MaxBase
Args   == 0..MaxArg

----------------------------------------------------------------------------
(* struct Shape<dimension> *)

\* Shape(void) {} followed by s[0] = s0: stride_ is never written, so it
\* holds an indeterminate value u.
Shape1(s0, u) == [dim |-> 1, shape_ |-> <<s0>>, stride_ |-> u]

Shape2(s1, s0, u) == [dim |-> 2, shape_ |-> <<s0, s1>>, stride_ |-> u]

Shape3(s2, s1, s0, u) == [dim |-> 3, shape_ |-> <<s0, s1, s2>>, stride_ |-> u]

Shape4(s3, s2, s1, s0, u) ==
    [dim |-> 4, shape_ |-> <<s0, s1, s2, s3>>, stride_ |-> u]

\* for (int i = 1; i < zMaxShape; ++i) acc *= shape_[i];
RECURSIVE MulHigher(_, _, _)
MulHigher(s, i, acc) ==
    IF i < s.dim THEN MulHigher(s, i + 1, acc * s.shape_[i + 1]) ELSE acc

\* Shape::operator==, the loop from index i on
RECURSIVE EqFrom(_, _, _)
EqFrom(a, b, i) ==
    IF i < a.dim
    THEN IF b.shape_[i + 1] # a.shape_[i + 1] THEN FALSE
         ELSE EqFrom(a, b, i + 1)
    ELSE TRUE

\* variant: the pads are compared as well
ShapeEq_WithPad(a, b) == EqFrom(a, b, 0) /\ a.stride_ = b.stride_

ShapeEq(a, b) == EqFrom(a, b, 0)

\* variant: the product loop starts at dimension 0
ShapeFlatTo2D_FromDim0(s) ==
    [dim |-> 2,
     shape_ |-> <<s.shape_[1], MulHigher(s, 0, 1)>>,
     stride_ |-> s.stride_]

\* variant: the pad is not carried over
ShapeFlatTo2D_NoPad(s) ==
    [dim |-> 2,
     shape_ |-> <<s.shape_[1], MulHigher(s, 1, 1)>>,
     stride_ |-> s.shape_[1]]

ShapeFlatTo2D(s) ==
    [dim |-> 2,
     shape_ |-> <<s.shape_[1], MulHigher(s, 1, 1)>>,
     stride_ |-> s.stride_]

\* variant: the product starts from the pad
Size_FromStride(s) == MulHigher(s, 1, s.stride_)

Size(s) == MulHigher(s, 1, s.shape_[1])

\* variant: the product starts from extent 0
MSize_FromExtent(s) == MulHigher(s, 1, s.shape_[1])

MSize(s) == MulHigher(s, 1, s.stride_)

\* variant: the lowest dimension is dropped instead of the highest
SubShape_DropLowest(s) ==
    [dim |-> s.dim - 1,
     shape_ |-> [i \in 1..(s.dim - 1) |-> s.shape_[i + 1]],
     stride_ |-> s.stride_]

SubShape(s) ==
    [dim |-> s.dim - 1,
     shape_ |-> [i \in 1..(s.dim - 1) |-> s.shape_[i]],
     stride_ |-> s.stride_]

----------------------------------------------------------------------------
(* struct Tensor<Device,dimension> and Tensor<Device,1> *)

\* Tensor(real_t *dptr, const Shape<dimension> &shape)
Tensor(dptr, shape) == [dptr |-> dptr, shape |-> shape]

TensorFlatTo2D(t) == Tensor(t.dptr, ShapeFlatTo2D(t.shape))

\* variant: the offset uses the allocated size of the whole tensor
TensorIndex_NoSub(t, idx) ==
    LET s == SubShape(t.shape)
    IN  Tensor(t.dptr + MSize(t.shape) * idx, s)

\* variant: the offset ignores the pad
TensorIndex_NoPad(t, idx) ==
    LET s == SubShape(t.shape)
    IN  Tensor(t.dptr + Size(s) * idx, s)

\* Tensor<Device,dimension>::operator[], dimension > 1
TensorIndex(t, idx) ==
    LET s == SubShape(t.shape)
    IN  Tensor(t.dptr + MSize(s) * idx, s)

\* Tensor<Device,1>::operator[]: the address of the scalar referred to
Tensor1At(t, idx) == t.dptr + idx

\* variant: the offset uses the allocated size of the slice itself
TensorSlice_FullMSize(t, begin, end) ==
    LET s == [t.shape EXCEPT !.shape_[t.shape.dim] = end - begin]
    IN  Tensor(t.dptr + MSize(s) * begin, s)

\* Tensor<Device,dimension>::Slice, dimension > 1
TensorSlice(t, begin, end) ==
    LET s == [t.shape EXCEPT !.shape_[t.shape.dim] = end - begin]
    IN  Tensor(t.dptr + MSize(SubShape(s)) * begin, s)

\* variant: the extent is set to end, the pad to end - begin
Tensor1Slice_KeepEnd(t, begin, end) ==
    Tensor(t.dptr + begin,
           [dim |-> 1, shape_ |-> <<end>>, stride_ |-> end - begin])

\* Tensor<Device,1>::Slice
Tensor1Slice(t, begin, end) ==
    Tensor(t.dptr + begin,
           [dim |-> 1, shape_ |-> <<end - begin>>, stride_ |-> end - begin])

\* AllocSpace: sets stride_ to the padded extent of dimension 0 and binds
\* the pointer.
AllocSpace(t, pad, base) ==
    Tensor(base, [t.shape EXCEPT !.stride_ = t.shape.shape_[1] + pad])

----------------------------------------------------------------------------
(* Shapes the builders can return *)

BuiltShapes ==
    {Shape1(s0, u) : s0 \in Exts, u \in Indet}
    \cup {Shape2(s[1], s[2], u) : s \in Exts \X Exts, u \in Indet}
    \cup {Shape3(s[1], s[2], s[3], u) : s \in Exts \X Exts \X Exts, u \in Indet}
    \cup {Shape4(s[1], s[2], s[3], s[4], u) :
              s \in Exts \X Exts \X Exts \X Exts, u \in Indet}

NoOp == [op |-> "none", a |-> 0, b |-> 0, ref |-> 0]
NoShape == Shape1(0, 0)
NoTensor == Tensor(0, NoShape)
NoQuery == [op |-> "none", val |-> 0, eq |-> FALSE]

----------------------------------------------------------------------------
(* Tensor handles: construction, allocation, views *)

\* Tensor(shape) / Tensor(dptr, shape) on a shape from Shape1..Shape4:
\* stride_ is whatever the builder left there.
Init ==
    /\ \E s \in BuiltShapes, p \in Bases : cur = Tensor(p, s)
    /\ prev = cur
    /\ last = NoOp
    /\ allocd = FALSE
    /\ sh0 = NoShape /\ sh = NoShape /\ nsub = 0 /\ other = NoShape
    /\ q = NoQuery
    /\ ta = NoTensor /\ tb = NoTensor /\ td = NoTensor
    /\ mem = <<>> /\ runs = 0 /\ out1 = <<>>

\* AllocSpace(obj) on a handle whose shape the caller has just set
DoAllocSpace ==
    /\ last.op = "none"
    /\ \E pad \in 0..MaxPad, base \in Bases :
           cur' = AllocSpace(cur, pad, base)
    /\ prev' = cur
    /\ last' = [NoOp EXCEPT !.op = "Alloc"]
    /\ allocd' = TRUE
    /\ UNCHANGED <<shapeVars, mapVars>>

\* t.FlatTo2D()
DoFlatTo2D ==
    /\ cur' = TensorFlatTo2D(cur)
    /\ prev' = cur
    /\ last' = [NoOp EXCEPT !.op = "Flat"]
    /\ UNCHANGED <<allocd, shapeVars, mapVars>>

\* t[idx], rank > 1, idx inside the outermost extent
DoIndex ==
    /\ cur.shape.dim > 1
    /\ \E idx \in {i \in Args : i < cur.shape.shape_[cur.shape.dim]} :
           /\ cur' = TensorIndex(cur, idx)
           /\ last' = [NoOp EXCEPT !.op = "Index", !.a = idx]
    /\ prev' = cur
    /\ UNCHANGED <<allocd, shapeVars, mapVars>>

\* t[idx], rank 1: a reference to a scalar; the handle is unchanged
DoAt ==
    /\ cur.shape.dim = 1
    /\ \E idx \in {i \in Args : i < cur.shape.shape_[1]} :
           last' = [NoOp EXCEPT !.op = "At", !.a = idx,
                                !.ref = Tensor1At(cur, idx)]
    /\ prev' = cur
    /\ UNCHANGED <<cur, allocd, shapeVars, mapVars>>

\* t.Slice(begin, end), rank > 1, 0 <= begin <= end <= outermost extent
DoSlice ==
    /\ cur.shape.dim > 1
    /\ \E e \in {i \in Args : i <= cur.shape.shape_[cur.shape.dim]} :
       \E b \in 0..e :
           /\ cur' = TensorSlice(cur, b, e)
           /\ last' = [NoOp EXCEPT !.op = "Slice", !.a = b, !.b = e]
    /\ prev' = cur
    /\ UNCHANGED <<allocd, shapeVars, mapVars>>

\* t.Slice(begin, end), rank 1
DoSlice1 ==
    /\ cur.shape.dim = 1
    /\ \E e \in {i \in Args : i <= cur.shape.shape_[1]} : \E b \in 0..e :
           /\ cur' = Tensor1Slice(cur, b, e)
           /\ last' = [NoOp EXCEPT !.op = "Slice", !.a = b, !.b = e]
    /\ prev' = cur
    /\ UNCHANGED <<allocd, shapeVars, mapVars>>

Next ==
    \/ DoAllocSpace
    \/ DoFlatTo2D
    \/ DoIndex
    \/ DoAt
    \/ DoSlice
    \/ DoSlice1

Spec == Init /\ [][Next]_vars

----------------------------------------------------------------------------
(* Arithmetic used to state the properties *)

\* product of the extents of dimensions lo..hi (1-based), 1 when empty
RECURSIVE ProdExt(_, _, _)
ProdExt(s, lo, hi) ==
    IF lo > hi THEN 1 ELSE s.shape_[lo] * ProdExt(s, lo + 1, hi)

PadOK(s) == s.stride_ >= s.shape_[1]

MaxOfExt(s) ==
    CHOOSE m \in {s.shape_[k] : k \in 1..s.dim} :
        \A k \in 1..s.dim : s.shape_[k] <= m

\* in-range index tuples of a shape: f[k] indexes dimension k - 1
IdxTuples(s) ==
    {f \in [1..s.dim -> 0..(MaxOfExt(s) - 1)] :
         \A k \in 1..s.dim : f[k] < s.shape_[k]}

\* address of t[f[D]]...[f[2]][f[1]] by nested indexing
RECURSIVE NestedAddr(_, _)
NestedAddr(t, f) ==
    IF t.shape.dim = 1 THEN Tensor1At(t, f[1])
    ELSE NestedAddr(TensorIndex(t, f[t.shape.dim]), f)

\* row-major linearisation of (f[D], ..., f[2]) over the extents D..2
RECURSIVE RowOf(_, _, _)
RowOf(s, f, k) ==
    IF k > s.dim THEN 0
    ELSE f[k] * ProdExt(s, 2, k - 1) + RowOf(s, f, k + 1)

----------------------------------------------------------------------------
(* Properties of tensor handles, checked under Spec *)

\* C1: Slice(b, e) with 0 <= b <= e <= N has outermost extent e - b, and
\* indexing the slice at i refers to the same address (for rank > 1: the
\* same sub-view, shape and pad included) as indexing the unsliced tensor
\* at b + i.
C1_SliceAliasesIndex ==
    last.op = "Slice" =>
        LET D == prev.shape.dim
            b == last.a
            e == last.b
        IN  /\ cur.shape.dim = D
            /\ cur.shape.shape_[D] = e - b
            /\ \A i \in 0..(e - b - 1) :
                   IF D > 1
                   THEN TensorIndex(cur, i) = TensorIndex(prev, b + i)
                   ELSE Tensor1At(cur, i) = Tensor1At(prev, b + i)

C1_Witness ==
    /\ last.op = "Slice"
    /\ prev.shape.dim > 2
    /\ last.a >= 1
    /\ last.b - last.a >= 1
    /\ last.b - last.a < prev.shape.shape_[prev.shape.dim]
    /\ MSize(SubShape(prev.shape)) >= 2

\* C2: t[idx] at rank D > 1 is a rank D-1 view with the outermost extent
\* removed, the pad preserved and the pointer advanced by
\* pad * extents[1..D-2] * idx; at rank 1 it refers to pointer + idx.
C2_IndexSubView ==
    /\ last.op = "Index" =>
           LET D == prev.shape.dim
           IN  /\ cur.shape.dim = D - 1
               /\ \A k \in 1..(D - 1) : cur.shape.shape_[k] = prev.shape.shape_[k]
               /\ Len(cur.shape.shape_) = D - 1
               /\ cur.shape.stride_ = prev.shape.stride_
               /\ cur.shape = SubShape(prev.shape)
               /\ cur.dptr = prev.dptr
                      + prev.shape.stride_ * ProdExt(prev.shape, 2, D - 1) * last.a
    /\ last.op = "At" => last.ref = prev.dptr + last.a

C2_Witness ==
    /\ last.op = "Index"
    /\ prev.shape.dim = 3
    /\ last.a >= 1
    /\ prev.shape.stride_ > prev.shape.shape_[1]
    /\ prev.shape.shape_[2] >= 2

\* C3 as stated: MSize = pad * product(extents[1..D-1]) and MSize >= Size
\* for every shape obtainable through the builders, FlatTo2D, SubShape and
\* Slice.
C3_AllocatedAtLeastLogical ==
    /\ MSize(cur.shape) = cur.shape.stride_ * ProdExt(cur.shape, 2, cur.shape.dim)
    /\ MSize(cur.shape) >= Size(cur.shape)

\* C3 amended: MSize = pad * product(extents[1..D-1]) for every shape, and
\* MSize >= Size for every shape with pad >= extents[0], in particular once
\* AllocSpace has set stride_ and for every view derived from such a handle.
C3_Amended ==
    /\ MSize(cur.shape) = cur.shape.stride_ * ProdExt(cur.shape, 2, cur.shape.dim)
    /\ PadOK(cur.shape) => MSize(cur.shape) >= Size(cur.shape)
    /\ allocd => MSize(cur.shape) >= Size(cur.shape)

C3_Witness ==
    /\ allocd
    /\ last.op = "Slice"
    /\ cur.shape.dim >= 3
    /\ Size(cur.shape) >= 4
    /\ MSize(cur.shape) > Size(cur.shape)

\* C4 as stated: every shape has pad >= extents[0], the shapes returned by
\* Shape1..Shape4 and held by freshly constructed tensors included.
C4_PadAtLeastExtent0 == PadOK(cur.shape)

\* C4 amended: pad >= extents[0] holds once AllocSpace has set stride_ and
\* for every rank-1 Slice, and FlatTo2D, SubShape, operator[] and Slice
\* preserve it; the stride_ of a shape fresh from Shape1..Shape4 is
\* indeterminate.
C4_Amended ==
    /\ allocd => PadOK(cur.shape)
    /\ (last.op = "Slice" /\ prev.shape.dim = 1) => PadOK(cur.shape)
    /\ (last.op \in {"Flat", "Index", "Slice"} /\ PadOK(prev.shape))
           => PadOK(cur.shape)

C4_Witness ==
    /\ last.op = "Slice"
    /\ prev.shape.dim = 1
    /\ ~allocd
    /\ ~PadOK(prev.shape)
    /\ last.a >= 1
    /\ cur.shape.shape_[1] >= 1

\* C5: s.FlatTo2D() is a rank-2 shape with extent[0] = s[0], extent[1] =
\* product of s[1..D-1] (1 when D = 1), the pad of s and the Size of s.
C5_FlatTo2DShape ==
    last.op = "Flat" =>
        LET s == prev.shape
            f == cur.shape
        IN  /\ f.dim = 2
            /\ Len(f.shape_) = 2
            /\ f.shape_[1] = s.shape_[1]
            /\ f.shape_[2] = ProdExt(s, 2, s.dim)
            /\ f.stride_ = s.stride_
            /\ Size(f) = Size(s)

C5_Witness ==
    /\ last.op = "Flat"
    /\ prev.shape.dim = 4
    /\ cur.shape.shape_[2] = MaxExt * MaxExt * MaxExt
    /\ cur.shape.shape_[1] >= 2
    /\ cur.shape.stride_ # cur.shape.shape_[1]

\* C10: t[i_{D-1}]...[i_1][x] and t.FlatTo2D()[y][x], y the row-major
\* linearisation of (i_{D-1}, ..., i_1), are the same address; when
\* pad >= extents[0], distinct in-range index tuples have distinct
\* addresses, all below pointer + MSize().
C10_FlatViewSameMemory ==
    last.op = "Flat" =>
        LET s == prev.shape
        IN  /\ \A f \in IdxTuples(s) :
                   NestedAddr(prev, f)
                       = Tensor1At(TensorIndex(cur, RowOf(s, f, 2)), f[1])
            /\ PadOK(s) =>
                   /\ \A f, g \in IdxTuples(s) :
                          f # g => NestedAddr(prev, f) # NestedAddr(prev, g)
                   /\ \A f \in IdxTuples(s) :
                          NestedAddr(prev, f) < prev.dptr + MSize(s)

C10_Witness ==
    /\ last.op = "Flat"
    /\ prev.shape.dim = 4
    /\ prev.shape.stride_ > prev.shape.shape_[1]
    /\ Cardinality(IdxTuples(prev.shape)) = MaxExt * MaxExt * MaxExt * MaxExt
    /\ prev.dptr > 0

----------------------------------------------------------------------------
(* Shape values: SubShape chains, Size, operator== *)

\* shapes of the rank of s, as a builder returns them, that differ from s
\* in at most one extent and have any pad
Neighbours(s) ==
    {[s EXCEPT !.shape_[k] = e, !.stride_ = u] :
         k \in 1..s.dim, e \in Exts, u \in Indet}

InitShape ==
    /\ sh0 \in BuiltShapes
    /\ sh = sh0
    /\ nsub = 0
    /\ other = sh0
    /\ q = NoQuery
    /\ cur = NoTensor /\ prev = NoTensor /\ last = NoOp /\ allocd = FALSE
    /\ ta = NoTensor /\ tb = NoTensor /\ td = NoTensor
    /\ mem = <<>> /\ runs = 0 /\ out1 = <<>>

\* s = s.SubShape(); Shape<1> has no SubShape a caller can use
ShSubShape ==
    /\ sh.dim > 1
    /\ sh' = SubShape(sh)
    /\ nsub' = nsub + 1
    /\ other' = sh'
    /\ q' = [NoQuery EXCEPT !.op = "SubShape"]
    /\ UNCHANGED <<sh0, tensorVars, mapVars>>

\* s.Size()
ShSize ==
    /\ q' = [NoQuery EXCEPT !.op = "Size", !.val = Size(sh)]
    /\ other' = sh
    /\ UNCHANGED <<sh0, sh, nsub, tensorVars, mapVars>>

\* s == o for another shape of the same rank
ShEq ==
    /\ \E o \in Neighbours(sh) :
           /\ other' = o
           /\ q' = [NoQuery EXCEPT !.op = "Eq", !.eq = ShapeEq(sh, o)]
    /\ UNCHANGED <<sh0, sh, nsub, tensorVars, mapVars>>

NextShape ==
    \/ ShSubShape
    \/ ShSize
    \/ ShEq

SpecShape == InitShape /\ [][NextShape]_vars

\* shapes of the rank of a and b that agree with one of them except in the
\* pad or in extent 0
Thirds(a, b) ==
    {[a EXCEPT !.stride_ = p] : p \in Indet}
    \cup {[b EXCEPT !.stride_ = p] : p \in Indet}
    \cup {[b EXCEPT !.shape_[1] = e] : e \in Exts}
    \cup {[a EXCEPT !.shape_[a.dim] = e] : e \in Exts}

\* C6: SubShape removes only the highest dimension, keeps the remaining
\* extents in order and keeps pad; after D-1 applications the shape has
\* rank 1 and its sole extent is the original extent of dimension 0.
C6_SubShapeChain ==
    /\ sh.dim = sh0.dim - nsub
    /\ Len(sh.shape_) = sh.dim
    /\ \A k \in 1..sh.dim : sh.shape_[k] = sh0.shape_[k]
    /\ sh.stride_ = sh0.stride_
    /\ nsub = sh0.dim - 1 => (sh.dim = 1 /\ sh.shape_ = <<sh0.shape_[1]>>)

C6_Witness ==
    /\ q.op = "SubShape"
    /\ sh0.dim = 4
    /\ nsub = 3
    /\ sh.shape_[1] = 2
    /\ sh0.shape_[2] # 2 /\ sh0.shape_[3] # 2 /\ sh0.shape_[4] # 2
    /\ sh.stride_ # 2

\* C7: Size() is the product of all D extents, whatever the pad.
C7_SizeIsProduct ==
    q.op = "Size" =>
        /\ q.val = ProdExt(sh, 1, sh.dim)
        /\ \A p \in Indet : Size([sh EXCEPT !.stride_ = p]) = q.val

C7_Witness ==
    /\ q.op = "Size"
    /\ sh.dim = 4
    /\ q.val = MaxExt * MaxExt * MaxExt * MaxExt
    /\ sh.stride_ # sh.shape_[1]

\* C8: two shapes of the same rank are equal iff all D extents are equal,
\* whatever the pads; the relation is reflexive, symmetric and transitive.
C8_EqualityOnExtents ==
    q.op = "Eq" =>
        /\ q.eq <=> (\A k \in 1..sh.dim : sh.shape_[k] = other.shape_[k])
        /\ ShapeEq(sh, sh) /\ ShapeEq(other, other)
        /\ ShapeEq(other, sh) <=> q.eq
        /\ \A c \in Thirds(sh, other) :
               /\ (q.eq /\ ShapeEq(other, c)) => ShapeEq(sh, c)
               /\ (ShapeEq(c, sh) /\ q.eq) => ShapeEq(c, other)

C8_Witness ==
    /\ q.op = "Eq"
    /\ q.eq
    /\ sh.dim >= 3
    /\ sh.stride_ # other.stride_
    /\ sh.shape_[sh.dim] >= 1

----------------------------------------------------------------------------
(* Expression assignment dst = A + B on the host *)

\* Plan<Tensor>::Eval(y, x): dptr[y * stride + x]
PlanEval(m, t, y, x) == m[t.dptr + y * t.shape.stride_ + x]

\* MapPlan<sv::saveto>(dst, plan of A + B): the loop over the rows y and
\* columns x of dst.FlatTo2D(), from (y, x) on
RECURSIVE MapPlanFrom(_, _, _, _, _, _)
MapPlanFrom(m, d2, a, b, y, x) ==
    IF y >= d2.shape.shape_[2] THEN m
    ELSE IF x >= d2.shape.shape_[1] THEN MapPlanFrom(m, d2, a, b, y + 1, 0)
    ELSE MapPlanFrom(
             [m EXCEPT ![Tensor1At(TensorIndex(d2, y), x)] =
                           PlanEval(m, a, y, x) + PlanEval(m, b, y, x)],
             d2, a, b, y, x + 1)

MapPlan(m, dst, a, b) == MapPlanFrom(m, TensorFlatTo2D(dst), a, b, 0, 0)

\* three buffers of the same logical shape, allocated one after the other,
\* each with its own pad; A and B filled, dst holding whatever was there
InitMap ==
    /\ \E s \in BuiltShapes, pa, pb, pd \in 0..MaxPad,
          ka, kb, g \in 0..MaxSeed :
           LET A == AllocSpace(Tensor(0, s), pa, 0)
               B == AllocSpace(Tensor(0, s), pb, MSize(A.shape))
               D == AllocSpace(Tensor(0, s), pd,
                               MSize(A.shape) + MSize(B.shape))
               top == D.dptr + MSize(D.shape)
           IN  /\ s.stride_ = 0
               /\ ta = A /\ tb = B /\ td = D
               /\ mem = [x \in 0..(top - 1) |->
                            IF x < B.dptr THEN ka + x
                            ELSE IF x < D.dptr THEN 10 * (kb + x - B.dptr)
                            ELSE g]
    /\ runs = 0
    /\ out1 = mem
    /\ cur = NoTensor /\ prev = NoTensor /\ last = NoOp /\ allocd = FALSE
    /\ sh0 = NoShape /\ sh = NoShape /\ nsub = 0 /\ other = NoShape
    /\ q = NoQuery

\* dst = A + B
Assign ==
    /\ runs < MaxRuns
    /\ mem' = MapPlan(mem, td, ta, tb)
    /\ runs' = runs + 1
    /\ out1' = IF runs = 0 THEN mem' ELSE out1
    /\ UNCHANGED <<ta, tb, td, tensorVars, shapeVars>>

NextMap == Assign

SpecMap == InitMap /\ [][NextMap]_vars

\* address of element (r, c) of the flattened view of t
At2D(t, r, c) == t.dptr + r * t.shape.stride_ + c

\* C9: after dst = A + B over arrays of the same logical shape (pads may
\* differ), dst(r,c) = A(r,c) + B(r,c) at every coordinate of the flattened
\* view, and running the assignment again leaves the same output.
C9_ElementwiseAdd ==
    /\ runs >= 1 =>
           \A r \in 0..(ProdExt(td.shape, 2, td.shape.dim) - 1),
              c \in 0..(td.shape.shape_[1] - 1) :
               mem[At2D(td, r, c)] = mem[At2D(ta, r, c)] + mem[At2D(tb, r, c)]
    /\ runs >= 2 => mem = out1

C9_Witness ==
    /\ runs = 2
    /\ td.shape.dim = 4
    /\ Size(td.shape) = MaxExt * MaxExt * MaxExt * MaxExt
    /\ ta.shape.stride_ # td.shape.stride_
    /\ tb.shape.stride_ # td.shape.stride_
    /\ td.shape.stride_ > td.shape.shape_[1]

====
